---- MODULE Spec2Model ----
(***************************************************************************)
(* Model of the binary decoding and extraction layer of                    *)
(* transsion_twrp_gen_vendor_boot.py: the vendor_boot header parser, the   *)
(* ramdisk table decoder, the recovery segment selection, the cpio "newc"  *)
(* extractor and the adaptive-ts.ko byte patcher.                          *)
(*                                                                         *)
(* Byte strings are sequences of integers 0..255.  Python's 0-based        *)
(* half-open slices data[a:b] are modelled by Slice, which clips to the    *)
(* length of the buffer exactly as Python does.                            *)
(***************************************************************************)
EXTENDS Integers, Sequences, FiniteSets, TLC

VARIABLES
    image_src,      \* image: how the image file was put together (not program state)
    image,          \* image: data, the bytes of the image file
    boot_header,    \* image: the VendorBootHeader, or the exception of its constructor
    entries,        \* image: the result of get_ramdisk_entries
    info,           \* image: the DeviceInfo during _extract_from_image
    img_pc,         \* image: position in parse_vendor_boot / _extract_from_image
    cpio,           \* extractor: the state of the extract_cpio call (see CpioStart)
    module_file,    \* patcher: content of the file at module_path, or NoFile
    patch_in,       \* patcher: the bytes read by f.read() (line 301)
    patch_pc,       \* patcher: "ready" before the call, "done" after return
    patch_loc,      \* patcher: locals last_pos, search_start, pos2, modified
    patch_io        \* patcher: number of reads / writes performed, diagnostics

image_vars == <<image_src, image, boot_header, entries, info, img_pc>>
patch_vars == <<module_file, patch_in, patch_pc, patch_loc, patch_io>>

(***************************************************************************)
(* Generic byte-string helpers (Python bytes semantics).                   *)
(***************************************************************************)
Min(a, b) == IF a < b THEN a ELSE b
Max(a, b) == IF a > b THEN a ELSE b

\* a Python slice bound: negative bounds count from the end, all are clipped
SliceBound(i, n) == IF i < 0 THEN Max(i + n, 0) ELSE Min(i, n)

\* data[a:b] : clipped to the buffer, empty when the bounds cross
Slice(data, a, b) ==
    LET lo == SliceBound(a, Len(data))
        hi == SliceBound(b, Len(data))
    IN  IF lo >= hi THEN <<>> ELSE SubSeq(data, lo + 1, hi)

\* data[a:]
SliceFrom(data, a) == Slice(data, a, Len(data))

\* the set of 0-based offsets at which pat occurs in data
Occurrences(data, pat) ==
    { p \in 0..(Len(data) - Len(pat)) : Slice(data, p, p + Len(pat)) = pat }

\* the concatenation of a sequence of byte strings
RECURSIVE Concat(_)
Concat(ss) == IF ss = <<>> THEN <<>> ELSE Head(ss) \o Concat(Tail(ss))

SetMax(S) == CHOOSE x \in S : \A y \in S : y <= x
SetMin(S) == CHOOSE x \in S : \A y \in S : x <= y

\* bytes.find(pat, start) restricted to the first hit: mutant of RFind
RFindFirst(data, pat) ==
    LET occ == Occurrences(data, pat)
    IN  IF occ = {} THEN -1 ELSE SetMin(occ)

\* bytes.rfind(pat): highest offset of an occurrence, -1 when there is none
RFind(data, pat) ==
    LET occ == Occurrences(data, pat)
    IN  IF occ = {} THEN -1 ELSE SetMax(occ)

\* bytes.find ignoring its start argument: mutant of Find
FindIgnoringStart(data, pat, start) ==
    LET occ == Occurrences(data, pat)
    IN  IF occ = {} THEN -1 ELSE SetMin(occ)

\* bytes.find(pat, start): lowest offset >= start of an occurrence, else -1
Find(data, pat, start) ==
    LET occ == { p \in Occurrences(data, pat) : p >= start }
    IN  IF occ = {} THEN -1 ELSE SetMin(occ)

\* bytes.rstrip(b'\x00')
RStripNul(b) ==
    LET nz == { i \in 1..Len(b) : b[i] # 0 }
    IN  IF nz = {} THEN <<>> ELSE SubSeq(b, 1, SetMax(nz))

\* U+FFFD, the marker that errors='replace' puts for an invalid byte
ReplacementChar == 16 * 4096 - 3

\* bytes.decode('utf-8', errors='replace') on the same buffers: mutant of Utf8Ignore
Utf8Replace(b) == [i \in 1..Len(b) |-> IF b[i] < 128 THEN b[i] ELSE ReplacementChar]

\* bytes.decode('utf-8', errors='ignore').  The buffers of this model hold
\* bytes >= 0x80 only as lone bytes that start no valid UTF-8 sequence, and
\* errors='ignore' drops every such byte; ASCII bytes decode to themselves.
Utf8Ignore(b) == SelectSeq(b, LAMBDA x : x < 128)

RECURSIVE LittleEndian(_)
LittleEndian(b) == IF b = <<>> THEN 0 ELSE Head(b) + 256 * LittleEndian(Tail(b))

\* struct.unpack with the 16-bit format '<H' on the first two bytes: mutant of Unpack
UnpackHalf(b, width) == IF Len(b) # width THEN -1 ELSE LittleEndian(SubSeq(b, 1, 2))

\* struct.unpack that zero-extends a short buffer: mutant of Unpack
UnpackLenient(b, width) == LittleEndian(b)

\* struct.unpack('<I' / '<Q', b)[0] : struct.error (here -1) unless b has
\* exactly the width of the format, else the little-endian value
Unpack(b, width) == IF Len(b) # width THEN -1 ELSE LittleEndian(b)

(***************************************************************************)
(* Vendor boot parser: constants (lines 62-71).                            *)
(***************************************************************************)
BOOT_MAGIC_VENDOR_BOOT == <<86, 78, 68, 82, 66, 79, 79, 84>>   \* b"VNDRBOOT"
VENDOR_RAMDISK_CMDLINE_SIZE == 2048

\* the product name width of the AOSP v3 header: mutant of BOOT_PRODUCT_NAME_SIZE
AospProductNameSize == 64 \div 4

BOOT_PRODUCT_NAME_SIZE == 64
VENDOR_RAMDISK_NAME_SIZE == 32
BOOT_ID_SIZE == 32

VENDOR_RAMDISK_TYPE_NONE == 0
VENDOR_RAMDISK_TYPE_PLATFORM == 1
VENDOR_RAMDISK_TYPE_RECOVERY == 2
VENDOR_RAMDISK_TYPE_DLKM == 3

(***************************************************************************)
(* VendorBootHeader.__init__ (lines 76-113).                               *)
(***************************************************************************)
\* the value of a VendorBootHeader that was never constructed, with the
\* exception that prevented it
HeaderError(exc) ==
    [exc |-> exc, header_version |-> -1, page_size |-> -1, kernel_load_addr |-> -1,
     ramdisk_load_addr |-> -1, vendor_ramdisk_total_size |-> -1, cmdline |-> <<>>,
     tags_load_addr |-> -1, product_name |-> <<>>, header_size |-> -1, dtb_size |-> -1,
     dtb_load_addr |-> -1, vendor_ramdisk_table_size |-> -1,
     vendor_ramdisk_table_num_entries |-> -1, vendor_bootconfig_size |-> -1,
     table_offset |-> -1]

\* a magic test that accepts anything: mutant of MagicMatches
MagicAlwaysMatches(magic) == TRUE

\* line 80: self.magic != BOOT_MAGIC_VENDOR_BOOT raises ValueError
MagicMatches(magic) == magic = BOOT_MAGIC_VENDOR_BOOT

VendorBootHeader(data) ==
    LET offset0 == 0
        magic == Slice(data, offset0, offset0 + 8)
        offset1 == offset0 + 8
        header_version == Unpack(Slice(data, offset1, offset1 + 4), 4)
        offset2 == offset1 + 4
        page_size == Unpack(Slice(data, offset2, offset2 + 4), 4)
        offset3 == offset2 + 4
        kernel_load_addr == Unpack(Slice(data, offset3, offset3 + 4), 4)
        offset4 == offset3 + 4
        ramdisk_load_addr == Unpack(Slice(data, offset4, offset4 + 4), 4)
        offset5 == offset4 + 4
        vendor_ramdisk_total_size == Unpack(Slice(data, offset5, offset5 + 4), 4)
        offset6 == offset5 + 4
        cmdline_bytes == Slice(data, offset6, offset6 + VENDOR_RAMDISK_CMDLINE_SIZE)
        cmdline == Utf8Ignore(RStripNul(cmdline_bytes))
        offset7 == offset6 + VENDOR_RAMDISK_CMDLINE_SIZE
        tags_load_addr == Unpack(Slice(data, offset7, offset7 + 4), 4)
        offset8 == offset7 + 4
        product_name_bytes == Slice(data, offset8, offset8 + BOOT_PRODUCT_NAME_SIZE)
        product_name == Utf8Ignore(RStripNul(product_name_bytes))
        offset9 == offset8 + BOOT_PRODUCT_NAME_SIZE
        header_size == Unpack(Slice(data, offset9, offset9 + 4), 4)
        offset10 == offset9 + 4
        dtb_size == Unpack(Slice(data, offset10, offset10 + 4), 4)
        offset11 == offset10 + 4
        dtb_load_addr == Unpack(Slice(data, offset11, offset11 + 8), 8)
        offset12 == offset11 + 8
        vendor_ramdisk_table_size == Unpack(Slice(data, offset12, offset12 + 4), 4)
        offset13 == offset12 + 4
        vendor_ramdisk_table_num_entries == Unpack(Slice(data, offset13, offset13 + 4), 4)
        offset14 == offset13 + 4
        vendor_bootconfig_size == Unpack(Slice(data, offset14, offset14 + 4), 4)
        offset15 == offset14 + 4
        unpacked == <<header_version, page_size, kernel_load_addr, ramdisk_load_addr,
                      vendor_ramdisk_total_size, tags_load_addr, header_size, dtb_size,
                      dtb_load_addr, vendor_ramdisk_table_size,
                      vendor_ramdisk_table_num_entries, vendor_bootconfig_size>>
    IN  IF ~MagicMatches(magic) THEN HeaderError("ValueError")
        ELSE IF \E k \in 1..Len(unpacked) : unpacked[k] = -1 THEN HeaderError("struct.error")
        ELSE [exc |-> "none", header_version |-> header_version, page_size |-> page_size,
              kernel_load_addr |-> kernel_load_addr, ramdisk_load_addr |-> ramdisk_load_addr,
              vendor_ramdisk_total_size |-> vendor_ramdisk_total_size, cmdline |-> cmdline,
              tags_load_addr |-> tags_load_addr, product_name |-> product_name,
              header_size |-> header_size, dtb_size |-> dtb_size,
              dtb_load_addr |-> dtb_load_addr,
              vendor_ramdisk_table_size |-> vendor_ramdisk_table_size,
              vendor_ramdisk_table_num_entries |-> vendor_ramdisk_table_num_entries,
              vendor_bootconfig_size |-> vendor_bootconfig_size,
              table_offset |-> offset15]

(***************************************************************************)
(* VendorRamdiskEntry.__init__ (lines 139-152).                            *)
(***************************************************************************)
\* ASCII text as character codes
Str_none == <<110, 111, 110, 101>>
Str_platform == <<112, 108, 97, 116, 102, 111, 114, 109>>
Str_recovery == <<114, 101, 99, 111, 118, 101, 114, 121>>
Str_dlkm == <<100, 108, 107, 109>>
Str_unknown == <<117, 110, 107, 110, 111, 119, 110>>

\* str(n) for n >= 0
RECURSIVE Decimal(_)
Decimal(n) == IF n < 10 THEN <<48 + n>> ELSE Decimal(n \div 10) \o <<48 + (n % 10)>>

\* one lowercase hex digit / bytes.hex()
HexDigit(d) == IF d < 10 THEN 48 + d ELSE 87 + d
RECURSIVE Hex(_)
Hex(b) == IF b = <<>> THEN <<>>
          ELSE <<HexDigit(Head(b) \div 16), HexDigit(Head(b) % 16)>> \o Hex(Tail(b))

\* the lookup with a default that leaves the code out: mutant of TypeStr
TypeStrNoCode(type) ==
    CASE type = VENDOR_RAMDISK_TYPE_NONE -> Str_none
      [] type = VENDOR_RAMDISK_TYPE_PLATFORM -> Str_platform
      [] type = VENDOR_RAMDISK_TYPE_RECOVERY -> Str_recovery
      [] type = VENDOR_RAMDISK_TYPE_DLKM -> Str_dlkm
      [] OTHER -> Str_unknown

\* the dict lookup with its f"unknown({self.type})" default (lines 147-152)
TypeStr(type) ==
    CASE type = VENDOR_RAMDISK_TYPE_NONE -> Str_none
      [] type = VENDOR_RAMDISK_TYPE_PLATFORM -> Str_platform
      [] type = VENDOR_RAMDISK_TYPE_RECOVERY -> Str_recovery
      [] type = VENDOR_RAMDISK_TYPE_DLKM -> Str_dlkm
      [] OTHER -> Str_unknown \o <<40>> \o Decimal(type) \o <<41>>

VendorRamdiskEntry(data) ==
    LET type == Unpack(Slice(data, 8, 12), 4)
    IN  [size |-> Unpack(Slice(data, 0, 4), 4),
         offset |-> Unpack(Slice(data, 4, 8), 4),
         type |-> type,
         name |-> Utf8Ignore(RStripNul(Slice(data, 12, 12 + VENDOR_RAMDISK_NAME_SIZE))),
         board_id |-> Hex(Slice(data, 12 + VENDOR_RAMDISK_NAME_SIZE,
                                12 + VENDOR_RAMDISK_NAME_SIZE + BOOT_ID_SIZE)),
         type_str |-> TypeStr(type)]

(***************************************************************************)
(* VendorBootHeader.get_ramdisk_entries (lines 115-128).                   *)
(***************************************************************************)
\* the entry width of the AOSP v4 table, whose board_id is 16 words: mutant of entry_size
entry_size_aosp == 4 + 4 + 4 + VENDOR_RAMDISK_NAME_SIZE + 16 * 4

entry_size == 4 + 4 + 4 + VENDOR_RAMDISK_NAME_SIZE + BOOT_ID_SIZE

\* a length test that never fires: mutant of EntryTruncated
EntryNeverTruncated(entry_data) == FALSE

\* line 124: len(entry_data) < entry_size
EntryTruncated(entry_data) == Len(entry_data) < entry_size

\* the for loop from iteration i on, with the entries appended so far
RECURSIVE EntriesLoop(_, _, _, _)
EntriesLoop(h, data, i, acc) ==
    IF i >= h.vendor_ramdisk_table_num_entries
    THEN [exc |-> "none", entries |-> acc]
    ELSE LET start == h.table_offset + i * entry_size
             end == start + entry_size
             entry_data == Slice(data, start, end)
         IN  IF EntryTruncated(entry_data)
             THEN [exc |-> "ValueError", entries |-> <<>>]
             ELSE EntriesLoop(h, data, i + 1, Append(acc, VendorRamdiskEntry(entry_data)))

get_ramdisk_entries(h, data) ==
    IF h.vendor_ramdisk_table_num_entries = 0
    THEN [exc |-> "none", entries |-> <<>>]
    ELSE EntriesLoop(h, data, 0, <<>>)

(***************************************************************************)
(* VendorBootHeader.get_dtb_offset (lines 130-135).                        *)
(***************************************************************************)
\* the locator without lines 133-134: mutant of get_dtb_offset
get_dtb_offset_unclamped(h, data) ==
    h.header_size + h.vendor_bootconfig_size + h.vendor_ramdisk_total_size

get_dtb_offset(h, data) ==
    LET ramdisk_start == h.header_size + h.vendor_bootconfig_size
        dtb_offset == ramdisk_start + h.vendor_ramdisk_total_size
    IN  IF dtb_offset + h.dtb_size > Len(data)
        THEN Len(data) - h.dtb_size
        ELSE dtb_offset

(***************************************************************************)
(* File system touched by extract_cpio.  A path is a sequence of           *)
(* components (each a byte string) from the root of the model; a node is   *)
(* a directory, a regular file or a symlink.  The archive file itself is   *)
(* kept apart from this tree, as the stream the extractor reads.           *)
(***************************************************************************)
Slash == 47
CurDir == <<46>>     \* '.'
DotDot == <<46, 46>>  \* '..'

HasNode(fs, path, kind) == \E n \in fs : n.path = path /\ n.kind = kind
Exists(fs, path) == path = <<>> \/ \E n \in fs : n.path = path
IsDir(fs, path) == path = <<>> \/ HasNode(fs, path, "dir")

Front(seq) == SubSeq(seq, 1, Len(seq) - 1)

\* str.split('/') : the components of a name, empty components included
RECURSIVE SplitPath(_)
SplitPath(name) ==
    LET cut == { i \in 1..Len(name) : name[i] = Slash }
    IN  IF cut = {} THEN <<name>>
        ELSE LET k == SetMin(cut)
             IN  <<SubSeq(name, 1, k - 1)>> \o SplitPath(SubSeq(name, k + 1, Len(name)))

\* str.lstrip('/') (line 272)
LStripSlash(name) ==
    LET keep == { i \in 1..Len(name) : name[i] # Slash }
    IN  IF keep = {} THEN <<>> ELSE SubSeq(name, SetMin(keep), Len(name))

\* the directory the kernel reaches from cur through one component
StepInto(cur, c) ==
    IF c = <<>> \/ c = CurDir THEN cur
    ELSE IF c = DotDot THEN (IF cur = <<>> THEN cur ELSE Front(cur))
    ELSE Append(cur, c)

\* the directory the kernel reaches from cur through the components comps
RECURSIVE ResolveFrom(_, _)
ResolveFrom(cur, comps) ==
    IF comps = <<>> THEN cur ELSE ResolveFrom(StepInto(cur, Head(comps)), Tail(comps))

\* os.makedirs(cur + '/' + '/'.join(comps), exist_ok=True): every missing
\* directory on the way is created; a non-directory on the way raises
RECURSIVE MakeDirs(_, _, _, _)
MakeDirs(fs, cur, comps, log) ==
    IF comps = <<>> THEN [exc |-> "none", fs |-> fs, cur |-> cur, log |-> log]
    ELSE LET next == StepInto(cur, Head(comps))
         IN  IF IsDir(fs, next) THEN MakeDirs(fs, next, Tail(comps), log)
             ELSE IF Exists(fs, next)
                  THEN [exc |-> "OSError", fs |-> fs, cur |-> cur, log |-> log]
                  ELSE MakeDirs(fs \cup {[path |-> next, kind |-> "dir", data |-> <<>>]},
                                next, Tail(comps),
                                Append(log, [op |-> "mkdir", path |-> next, data |-> <<>>, rec |-> 0]))

\* open(path, 'wb') closed without the write: mutant of WriteFile
WriteFileEmpty(fs, parent, c, data, log) ==
    LET target == StepInto(parent, c)
    IN  IF c = <<>> \/ c = CurDir \/ c = DotDot \/ IsDir(fs, target)
        THEN [exc |-> "OSError", fs |-> fs, log |-> log]
        ELSE [exc |-> "none",
              fs |-> { n \in fs : n.path # target }
                       \cup {[path |-> target, kind |-> "file", data |-> <<>>]},
              log |-> Append(log, [op |-> "write", path |-> target, data |-> <<>>, rec |-> 0])]

\* open(path, 'wb') followed by write(data) and close, the parent directory
\* being parent and the last component of the path being c
WriteFile(fs, parent, c, data, log) ==
    LET target == StepInto(parent, c)
    IN  IF c = <<>> \/ c = CurDir \/ c = DotDot \/ IsDir(fs, target)
        THEN [exc |-> "OSError", fs |-> fs, log |-> log]
        ELSE [exc |-> "none",
              fs |-> { n \in fs : n.path # target }
                       \cup {[path |-> target, kind |-> "file", data |-> data]},
              log |-> Append(log, [op |-> "write", path |-> target, data |-> data, rec |-> 0])]

(***************************************************************************)
(* extract_cpio (lines 219-291).                                           *)
(***************************************************************************)
CpioMagics == { <<48, 55, 48, 55, 48, 49>>, <<48, 55, 48, 55, 48, 50>> }  \* '070701', '070702'
Trailer == <<84, 82, 65, 73, 76, 69, 82, 33, 33, 33>>                     \* 'TRAILER!!!'
\* the two magic bytes in the wrong order: mutant of GzipMagic
GzipMagicSwapped == <<139, 31>>

GzipMagic == <<31, 139>>                                                  \* b'\x1f\x8b'
CpioHeaderSize == 110
TempCpioName ==    \* 'ramdisk_decompressed.cpio'
    <<114, 97, 109, 100, 105, 115, 107, 95, 100, 101, 99, 111, 109, 112, 114, 101, 115, 115, 101, 100, 46, 99, 112, 105, 111>>

\* the value of one hex digit character, -1 for any other character
HexDigitValue(c) ==
    IF c >= 48 /\ c <= 57 THEN c - 48
    ELSE IF c >= 97 /\ c <= 102 THEN c - 87
    ELSE IF c >= 65 /\ c <= 70 THEN c - 55
    ELSE -1

\* int(field, 16) on a field of hex digits; ValueError (here -1) on a field
\* with a character that is no hex digit.  (Signs, blanks, underscores and a
\* 0x prefix, which int() also accepts, do not occur in the model's streams.)
RECURSIVE ParseHex(_)
ParseHex(b) ==
    IF b = <<>> THEN -1
    ELSE LET d == HexDigitValue(b[Len(b)])
         IN  IF d = -1 THEN -1
             ELSE IF Len(b) = 1 THEN d
             ELSE LET rest == ParseHex(Front(b))
                  IN  IF rest = -1 THEN -1 ELSE 16 * rest + d

\* stat.S_IFMT(mode) and the tests built on it
S_IFMT(mode) == ((mode \div 4096) % 16) * 4096
S_ISDIR(mode) == S_IFMT(mode) = 16384      \* 0o040000
S_ISLNK(mode) == S_IFMT(mode) = 40960      \* 0o120000

\* the padding without its outer modulo, 4 bytes for an aligned size: mutant of Padding
PaddingAlways(size) == 4 - (size % 4)

Padding(size) == (4 - (size % 4)) % 4

\* gzip.open(...).read() is library code: what it returns for a file is
\* given with the file, as the inflated bytes or as GzipFails when it raises
GzipFails == <<-1>>

\* the state of one call: the bytes of the file at cpio_file, the stream
\* being read and the position in it, the file system, the records decoded
\* and the operations performed on the file system (rec: the number of the
\* record they materialise, 0 for the operations that precede the loop)
\* (the file at cpio_file exists, so line 221 does not raise)
CpioStart(stream, inflated, dest, fs) ==
    [file |-> stream, stream |-> stream, inflated |-> inflated, pos |-> 0,
     dest |-> dest, fs |-> fs,
     status |-> "called", exc |-> "none", recs |-> <<>>, log |-> <<>>]

\* lines 221-240: create the destination, inflate a gzip input
CpioOpen(cp) ==
    LET made == MakeDirs(cp.fs, <<>>, cp.dest, cp.log)
    IN  IF made.exc # "none"
        THEN [cp EXCEPT !.status = "raised", !.exc = made.exc]
        ELSE IF Slice(cp.stream, 0, 2) = GzipMagic
        THEN LET data == cp.inflated
                 temp == WriteFile(made.fs, Front(cp.dest),
                                   TempCpioName, data, made.log)
             IN  IF data = GzipFails
                 THEN [cp EXCEPT !.fs = made.fs, !.log = made.log, !.status = "gzipfail"]
                 ELSE IF temp.exc # "none"
                 THEN [cp EXCEPT !.fs = made.fs, !.log = made.log, !.status = "gzipfail"]
                 ELSE [cp EXCEPT !.fs = temp.fs, !.log = temp.log, !.stream = data,
                                 !.status = "reading"]
        ELSE [cp EXCEPT !.fs = made.fs, !.log = made.log, !.status = "reading"]

\* lines 272-290: materialise one entry; the stream is at the content
Materialise(cp, filename, mode, filesize, at) ==
    LET comps == SplitPath(LStripSlash(filename))
        stream == cp.stream
    IN  IF filesize = 0
        THEN IF S_ISDIR(mode)
             THEN LET made == MakeDirs(cp.fs, cp.dest, comps, cp.log)
                  IN  [exc |-> made.exc, fs |-> made.fs, log |-> made.log, pos |-> at]
             ELSE IF S_ISLNK(mode)
             THEN \* os.symlink('', full_path): an empty target is ENOENT
                  [exc |-> "OSError", fs |-> cp.fs, log |-> cp.log, pos |-> at]
             ELSE LET made == MakeDirs(cp.fs, cp.dest, Front(comps), cp.log)
                      wr == WriteFile(made.fs, made.cur, comps[Len(comps)], <<>>, made.log)
                  IN  IF made.exc # "none"
                      THEN [exc |-> made.exc, fs |-> made.fs, log |-> made.log, pos |-> at]
                      ELSE [exc |-> wr.exc, fs |-> wr.fs, log |-> wr.log, pos |-> at]
        ELSE LET data == Slice(stream, at, at + filesize)
                 after == Min(at + filesize, Len(stream))
                 made == MakeDirs(cp.fs, cp.dest, Front(comps), cp.log)
                 wr == WriteFile(made.fs, made.cur, comps[Len(comps)], data, made.log)
             IN  IF made.exc # "none"
                 THEN [exc |-> made.exc, fs |-> made.fs, log |-> made.log, pos |-> after]
                 ELSE [exc |-> wr.exc, fs |-> wr.fs, log |-> wr.log,
                       pos |-> Min(after + Padding(filesize), Len(stream))]

\* a sentinel test that never fires: mutant of IsTrailer
IsTrailerNever(filename) == FALSE

\* line 269: filename == 'TRAILER!!!'
IsTrailer(filename) == filename = Trailer

\* lines 243-290: one iteration of the while loop
CpioRecord(cp) ==
    LET stream == cp.stream
        header == Slice(stream, cp.pos, cp.pos + CpioHeaderSize)
        at0 == Min(cp.pos + CpioHeaderSize, Len(stream))
        magic == Slice(header, 0, 6)
        fields == [k \in 0..12 |-> ParseHex(Slice(header, 6 + 8 * k, 14 + 8 * k))]
        mode == fields[1]
        filesize == fields[6]
        namesize == fields[11]
        filename_raw == Slice(stream, at0, at0 + namesize)
        at1 == Min(at0 + namesize, Len(stream))
        at2 == Min(at1 + Padding(namesize), Len(stream))
        filename == Utf8Ignore(RStripNul(filename_raw))
        rec == [at |-> cp.pos, magic |-> magic, filename |-> filename, mode |-> mode,
                filesize |-> filesize, namesize |-> namesize, content_at |-> at2]
        norec == [at |-> cp.pos, magic |-> magic, filename |-> <<>>, mode |-> -1,
                  filesize |-> -1, namesize |-> -1, content_at |-> -1]
    IN  IF Len(header) < CpioHeaderSize
        THEN [cp EXCEPT !.pos = at0, !.status = "eof"]
        ELSE IF \E i \in 1..6 : magic[i] >= 128
        THEN [cp EXCEPT !.pos = at0, !.status = "raised", !.exc = "UnicodeDecodeError",
                        !.recs = Append(@, norec)]
        ELSE IF magic \notin CpioMagics
        THEN [cp EXCEPT !.pos = at0, !.status = "badmagic",
                        !.recs = Append(@, norec)]
        ELSE IF \E k \in 0..12 : fields[k] = -1
        THEN [cp EXCEPT !.pos = at0, !.status = "raised", !.exc = "ValueError",
                        !.recs = Append(@, norec)]
        ELSE IF IsTrailer(filename)
        THEN [cp EXCEPT !.pos = at2, !.status = "trailer", !.recs = Append(@, rec)]
        ELSE LET m == Materialise(cp, filename, mode, filesize, at2)
                 \* the operations of this record, marked with its number
                 log == [j \in 1..Len(m.log) |->
                            IF j <= Len(cp.log) THEN m.log[j]
                            ELSE [m.log[j] EXCEPT !.rec = Len(cp.recs) + 1]]
             IN  [cp EXCEPT !.pos = m.pos, !.fs = m.fs, !.log = log,
                            !.recs = Append(@, rec),
                            !.status = IF m.exc = "none" THEN "reading" ELSE "raised",
                            !.exc = m.exc]

\* the whole call, to its return or to the exception that leaves it
RECURSIVE CpioRun(_)
CpioRun(cp) ==
    IF cp.status = "called" THEN CpioRun(CpioOpen(cp))
    ELSE IF cp.status = "reading" THEN CpioRun(CpioRecord(cp))
    ELSE cp

(***************************************************************************)
(* The archives extract_cpio is run on: streams of at most MaxRecords      *)
(* records, each one laid out as the extractor reads it (110 header bytes  *)
(* of ASCII hex fields, the NUL-terminated name padded to 4 bytes from its *)
(* start, the content padded likewise).                                    *)
(***************************************************************************)
MaxRecords == 3

HexDigitUpper(d) == IF d < 10 THEN 48 + d ELSE 55 + d
Hex8(n) == [k \in 1..8 |-> HexDigitUpper((n \div (16 ^ (8 - k))) % 16)]
Zeros(n) == [k \in 1..n |-> 0]

Magic070701 == <<48, 55, 48, 55, 48, 49>>
Magic070702 == <<48, 55, 48, 55, 48, 50>>
Magic070707 == <<48, 55, 48, 55, 48, 55>>
MagicNonAscii == <<255, 55, 48, 55, 48, 49>>

ModeDir == 4 * 4096 + 493      \* 0o040755
ModeReg == 8 * 4096 + 420      \* 0o100644
ModeLnk == 10 * 4096 + 511     \* 0o120777

EncodeRecord(e) ==
    LET namesize == Len(e.name) + 1
        filesize == Len(e.content)
    IN  e.magic \o Hex8(1) \o Hex8(e.mode) \o Hex8(0) \o Hex8(0) \o Hex8(1) \o Hex8(0)
        \o Hex8(filesize) \o Hex8(0) \o Hex8(0) \o Hex8(0) \o Hex8(0)
        \o Hex8(namesize) \o Hex8(0)
        \o e.name \o <<0>> \o Zeros(Padding(namesize))
        \o e.content \o Zeros(Padding(filesize))

Name_dir == <<100, 105, 114>>
Name_hi == <<100, 105, 114, 47, 104, 105, 46, 116, 120, 116>>
Name_link == <<100, 105, 114, 47, 108, 105, 110, 107>>
Name_passwd == <<47, 101, 116, 99, 47, 112, 97, 115, 115, 119, 100>>
Name_evil == <<46, 46, 47, 101, 118, 105, 108>>
Name_empty == <<101>>
Name_link0 == <<108, 48>>
Text_hi == <<104, 105>>
Text_hi_txt == <<104, 105, 46, 116, 120, 116>>
Text_x == <<120>>

Rec(magic, name, mode, content) ==
    [magic |-> magic, name |-> name, mode |-> mode, content |-> content]

RecordPool ==
    { Rec(Magic070701, Name_dir, ModeDir, <<>>),
      Rec(Magic070701, Name_hi, ModeReg, Text_hi),
      Rec(Magic070701, Name_link, ModeLnk, Text_hi_txt),
      Rec(Magic070702, Name_passwd, ModeReg, Text_x),
      Rec(Magic070701, Name_evil, ModeReg, Text_x),
      Rec(Magic070701, Name_empty, ModeReg, <<>>),
      Rec(Magic070701, Name_link0, ModeLnk, <<>>),
      Rec(Magic070701, Trailer, 0, <<>>),
      Rec(Magic070707, Name_dir, ModeDir, <<>>),
      Rec(MagicNonAscii, Name_dir, ModeDir, <<>>) }

RECURSIVE EncodeArchive(_)
EncodeArchive(es) ==
    IF es = <<>> THEN <<>> ELSE EncodeRecord(Head(es)) \o EncodeArchive(Tail(es))

Archives == UNION { { EncodeArchive(es) : es \in [1..n -> RecordPool] } : n \in 0..MaxRecords }

\* an archive of one file and the sentinel, and the places where it is cut:
\* in the first header, in the name, in the content, before, in and after
\* the padding of the content, and in the header of the sentinel
CutBase ==
    EncodeArchive(<<Rec(Magic070701, Name_hi, ModeReg, Text_hi),
                    Rec(Magic070701, Trailer, 0, <<>>)>>)
CutPoints == { 50, 115, 123, 124, 125, 126, 186 }
CutArchives == { Slice(CutBase, 0, c) : c \in CutPoints }

\* a gzip file (its first ten bytes) and what inflating it may give
GzipFile == <<31, 139, 8, 0, 0, 0, 0, 0, 0, 3>>
GzipContents ==
    {GzipFails} \cup { EncodeArchive(es) : es \in [1..1 -> RecordPool] }
                \cup { EncodeArchive(<<e, Rec(Magic070701, Trailer, 0, <<>>)>>) : e \in RecordPool }

\* the working directory and the destination root below it
WorkDir == <<<<119>>>>
DestDir == Append(WorkDir, <<100>>)
WorkFs == { [path |-> WorkDir, kind |-> "dir", data |-> <<>>] }

(***************************************************************************)
(* DeviceInfo._extract_from_image (lines 429-454).                         *)
(***************************************************************************)
Str_ramdisk_ == <<114, 97, 109, 100, 105, 115, 107, 95>>
Str_cpio == <<46, 99, 112, 105, 111>>
Str_dtb_img == <<100, 116, 98, 46, 105, 109, 103>>

\* open(os.path.join(base, relname), 'wb') and write: every directory on the
\* way to the file has to exist
WriteAt(fs, base, relname, data, log) ==
    LET comps == SplitPath(relname)
        parent == ResolveFrom(base, Front(comps))
    IN  IF ~IsDir(fs, parent) THEN [exc |-> "OSError", fs |-> fs, log |-> log]
        ELSE WriteFile(fs, parent, comps[Len(comps)], data, log)

\* entry.name or entry.type_str
SegmentKey(entry) == IF entry.name # <<>> THEN entry.name ELSE entry.type_str

\* os.path.join(self.work_dir, f"ramdisk_{entry.name or entry.type_str}")
SegmentDir(work_dir, entry) == work_dir \o SplitPath(Str_ramdisk_ \o SegmentKey(entry))

\* entry.type == VENDOR_RAMDISK_TYPE_RECOVERY (line 445)
IsRecovery(entry) == entry.type = VENDOR_RAMDISK_TYPE_RECOVERY

\* the state of a DeviceInfo after __init__ (lines 384-421); None is <<>>
DeviceInfoInit(work_dir, fs) ==
    [work_dir |-> work_dir, fs |-> fs, i |-> 0, recovery_ramdisk_dir |-> <<>>,
     dtb_path |-> <<>>, dtb_offset |-> 0, segments |-> <<>>, exc |-> "none"]

\* lines 430-437
ExtractDtb(di, h, data) ==
    IF h.dtb_size > 0
    THEN LET dtb_offset == get_dtb_offset(h, data)
             dtb_data == Slice(data, dtb_offset, dtb_offset + h.dtb_size)
             wr == WriteAt(di.fs, di.work_dir, Str_dtb_img, dtb_data, <<>>)
         IN  IF wr.exc # "none" THEN [di EXCEPT !.exc = wr.exc]
             ELSE [di EXCEPT !.fs = wr.fs, !.dtb_offset = dtb_offset,
                               !.dtb_path = Append(di.work_dir, Str_dtb_img)]
    ELSE di

\* lines 439-448: the body of the for loop for self.entries[i].  (No slice
\* of the images below begins with the gzip magic, so what gzip would return
\* for it is immaterial.)
ExtractSegment(di, entry, data) ==
    LET cpio_bytes == Slice(data, entry.offset, entry.offset + entry.size)
        wr == WriteAt(di.fs, di.work_dir,
                      Str_ramdisk_ \o SegmentKey(entry) \o Str_cpio, cpio_bytes, <<>>)
        dest_dir == SegmentDir(di.work_dir, entry)
        run == CpioRun(CpioStart(cpio_bytes, GzipFails, dest_dir, wr.fs))
        seg == [dest_dir |-> dest_dir, cpio_bytes |-> cpio_bytes, status |-> run.status]
    IN  IF wr.exc # "none" THEN [di EXCEPT !.exc = wr.exc]
        ELSE IF run.status = "raised"
        THEN [di EXCEPT !.fs = run.fs, !.exc = run.exc, !.segments = Append(@, seg)]
        ELSE [di EXCEPT !.fs = run.fs, !.i = @ + 1, !.segments = Append(@, seg),
                          !.recovery_ramdisk_dir =
                              IF IsRecovery(entry) THEN dest_dir ELSE @]

\* lines 449-453: the fallback to the first ramdisk, RuntimeError without one
SelectRecovery(di, es) ==
    LET chosen == IF di.recovery_ramdisk_dir = <<>> /\ es # <<>>
                  THEN SegmentDir(di.work_dir, es[1])
                  ELSE di.recovery_ramdisk_dir
    IN  IF chosen = <<>> THEN [di EXCEPT !.exc = "RuntimeError"]
        ELSE [di EXCEPT !.recovery_ramdisk_dir = chosen]

(***************************************************************************)
(* The images the parser is run on.  An image is the fixed header, the     *)
(* ramdisk table behind it, the concatenated ramdisk archives and the      *)
(* DTB, cut after any number of bytes.  Integers stay below 2^31.          *)
(***************************************************************************)
MaxTable == 3

RECURSIVE BytesLE(_, _)
BytesLE(v, width) ==
    IF width = 0 THEN <<>> ELSE <<v % 256>> \o BytesLE(v \div 256, width - 1)
PadNul(text, width) == text \o Zeros(width - Len(text))

FixedHeaderSize == 8 + 5 * 4 + 2048 + 4 + 64 + 4 + 4 + 8 + 4 + 4 + 4

EncodeHeader(f) ==
    BOOT_MAGIC_VENDOR_BOOT
    \o BytesLE(f.header_version, 4) \o BytesLE(f.page_size, 4)
    \o BytesLE(f.kernel_load_addr, 4) \o BytesLE(f.ramdisk_load_addr, 4)
    \o BytesLE(f.vendor_ramdisk_total_size, 4)
    \o PadNul(f.cmdline, 2048)
    \o BytesLE(f.tags_load_addr, 4)
    \o PadNul(f.product_name, 64)
    \o BytesLE(f.header_size, 4) \o BytesLE(f.dtb_size, 4) \o BytesLE(f.dtb_load_addr, 8)
    \o BytesLE(f.vendor_ramdisk_table_size, 4)
    \o BytesLE(f.vendor_ramdisk_table_num_entries, 4)
    \o BytesLE(f.vendor_bootconfig_size, 4)

EncodeTableEntry(e) ==
    BytesLE(e.size, 4) \o BytesLE(e.offset, 4) \o BytesLE(e.type, 4)
    \o PadNul(e.name, 32) \o e.board_id

TrailerOnly == EncodeRecord(Rec(Magic070701, Trailer, 0, <<>>))
OneFile == EncodeRecord(Rec(Magic070701, Name_empty, ModeReg, Text_x)) \o TrailerOnly

Segment(type, name, archive) == [type |-> type, name |-> name, archive |-> archive]

\* the largest type code the model's integers hold
TypeCodeMax == 2 * 1073741823 + 1

SegmentPool ==
    { Segment(VENDOR_RAMDISK_TYPE_RECOVERY, <<97>>, OneFile),
      Segment(VENDOR_RAMDISK_TYPE_RECOVERY, <<98>>, TrailerOnly),
      Segment(VENDOR_RAMDISK_TYPE_PLATFORM, <<99>>, TrailerOnly),
      Segment(VENDOR_RAMDISK_TYPE_DLKM, <<>>, TrailerOnly),
      Segment(7, <<>>, TrailerOnly) }

\* segments of the two remaining kinds of type code, and their tables
TypeSegments ==
    { Segment(VENDOR_RAMDISK_TYPE_NONE, <<>>, TrailerOnly),
      Segment(TypeCodeMax, <<>>, TrailerOnly) }

TypeTables == UNION { [1..n -> TypeSegments] : n \in 1..2 }

Tables == UNION { [1..n -> SegmentPool] : n \in 0..MaxTable } \cup TypeTables

RECURSIVE SumLen(_)
SumLen(segs) == IF segs = <<>> THEN 0 ELSE Len(Head(segs).archive) + SumLen(Tail(segs))

\* the table entry of segs[i]: its size, and its offset in the ramdisk region
TableEntryOf(segs, i) ==
    [size |-> Len(segs[i].archive), offset |-> SumLen(SubSeq(segs, 1, i - 1)),
     type |-> segs[i].type, name |-> segs[i].name,
     board_id |-> [k \in 1..32 |-> (16 * i + k) % 256]]

RECURSIVE ConcatArchives(_)
ConcatArchives(segs) ==
    IF segs = <<>> THEN <<>> ELSE Head(segs).archive \o ConcatArchives(Tail(segs))

DtbBlob == <<208, 13, 254, 237, 1, 2, 3, 4>>

\* two settings of the fields that the layout leaves free (slack: by how much
\* vendor_ramdisk_total_size exceeds the archives that are present;
\* dtb_excess: by how much dtb_size exceeds the DTB that is present)
FieldVariants ==
    { [header_version |-> 4, page_size |-> 4096, kernel_load_addr |-> 257,
       ramdisk_load_addr |-> 514, cmdline |-> <<97, 61, 98>>, tags_load_addr |-> 771,
       product_name |-> <<88, 54, 56, 56, 53>>, dtb_load_addr |-> 1028,
       vendor_bootconfig_size |-> 0, slack |-> 0, dtb_excess |-> 0],
      [header_version |-> 3, page_size |-> 0, kernel_load_addr |-> 0,
       ramdisk_load_addr |-> 0, cmdline |-> <<>>, tags_load_addr |-> 0,
       product_name |-> <<>>, dtb_load_addr |-> 0,
       vendor_bootconfig_size |-> 0, slack |-> 4096, dtb_excess |-> 0] }

\* text that fills a field of the given width to its last byte
FullText(width) == [k \in 1..width |-> 97 + (k % 26)]

\* a header with large integers, a product name without padding and a
\* boot-config region between the table and the ramdisks
VariantLarge ==
    [header_version |-> 4, page_size |-> 2147483647, kernel_load_addr |-> 16909060,
     ramdisk_load_addr |-> 305419896, cmdline |-> FullText(80),
     tags_load_addr |-> 2147483646, product_name |-> FullText(64),
     dtb_load_addr |-> 2130706433, vendor_bootconfig_size |-> 16, slack |-> 0, dtb_excess |-> 0]

\* a header whose text regions hold bytes that are not UTF-8 (0xff, 0xc8) and
\* a NUL before the last character
VariantBadText ==
    [header_version |-> 4, page_size |-> 4096, kernel_load_addr |-> 257,
     ramdisk_load_addr |-> 514, cmdline |-> <<97, 255, 0, 98>>, tags_load_addr |-> 771,
     product_name |-> <<200, 80>>, dtb_load_addr |-> 1028,
     vendor_bootconfig_size |-> 0, slack |-> 0, dtb_excess |-> 0]

\* a header whose dtb_size is larger than the whole image
VariantHugeDtb ==
    [header_version |-> 4, page_size |-> 4096, kernel_load_addr |-> 257,
     ramdisk_load_addr |-> 514, cmdline |-> <<97, 61, 98>>, tags_load_addr |-> 771,
     product_name |-> <<88, 54, 56, 56, 53>>, dtb_load_addr |-> 1028,
     vendor_bootconfig_size |-> 0, slack |-> 0, dtb_excess |-> 4096]

ExtraVariants == { VariantLarge, VariantBadText, VariantHugeDtb }

\* the header fields of the image of variant v holding the segments segs
HeaderFields(v, segs) ==
    [header_version |-> v.header_version, page_size |-> v.page_size,
     kernel_load_addr |-> v.kernel_load_addr, ramdisk_load_addr |-> v.ramdisk_load_addr,
     vendor_ramdisk_total_size |-> SumLen(segs) + v.slack,
     cmdline |-> v.cmdline, tags_load_addr |-> v.tags_load_addr,
     product_name |-> v.product_name,
     header_size |-> FixedHeaderSize + Len(segs) * 76,
     dtb_size |-> Len(DtbBlob) + v.dtb_excess, dtb_load_addr |-> v.dtb_load_addr,
     vendor_ramdisk_table_size |-> Len(segs) * 76,
     vendor_ramdisk_table_num_entries |-> Len(segs),
     vendor_bootconfig_size |-> v.vendor_bootconfig_size]

BuildImage(v, segs) ==
    EncodeHeader(HeaderFields(v, segs))
    \o Concat([i \in 1..Len(segs) |-> EncodeTableEntry(TableEntryOf(segs, i))])
    \o Zeros(v.vendor_bootconfig_size)
    \o ConcatArchives(segs)
    \o DtbBlob

\* where an image is cut: anywhere in the fixed header when it has no table,
\* else before the table, after its first entry, one byte short of the
\* table, at its end, or not at all
Cuts(segs) ==
    IF segs = <<>> THEN 0..(FixedHeaderSize + Len(DtbBlob))
    ELSE { FixedHeaderSize, FixedHeaderSize + 76,
           FixedHeaderSize + Len(segs) * 76 - 1, FixedHeaderSize + Len(segs) * 76,
           FixedHeaderSize + Len(segs) * 76 + SumLen(segs) + Len(DtbBlob) }

\* byte k (1..8) of the magic damaged, or k = 0 for none
Damage(bytes, k) ==
    IF k = 0 \/ k > Len(bytes) THEN bytes ELSE [bytes EXCEPT ![k] = (bytes[k] + 1) % 256]

DamagedBytes == {1, 8}
Damages(segs) == IF segs = <<>> THEN {0} \cup DamagedBytes ELSE {0}

ImageSource(v, segs, c, k) == [variant |-> v, segs |-> segs, cut |-> c, damage |-> k]

SourcesOf(v, segs) ==
    { ImageSource(v, segs, c, k) : c \in Cuts(segs), k \in Damages(segs) }

\* the extra variants come whole
WholeImage(v, segs) == ImageSource(v, segs, Len(BuildImage(v, segs)), 0)

ImageSources ==
    UNION { SourcesOf(v, segs) : v \in FieldVariants, segs \in Tables }
    \cup { WholeImage(v, segs) : v \in ExtraVariants, segs \in Tables }

ImageOf(src) == Slice(Damage(BuildImage(src.variant, src.segs), src.damage), 0, src.cut)

(***************************************************************************)
(* Binary patcher: patch_adaptive_ts (lines 294-337).                      *)
(***************************************************************************)
\* the file at module_path: absent, or present with its content
NoFile == [exists |-> FALSE, data |-> <<>>]
File(bytes) == [exists |-> TRUE, data |-> bytes]

pattern1_old == <<96, 0, 0, 84, 64, 0>>     \* b'\x60\x00\x00\x54\x40\x00'
pattern1_new == <<96, 0, 0, 84, 0, 0>>      \* b'\x60\x00\x00\x54\x00\x00'
pattern2_old == <<32, 0, 128, 82>>          \* b'\x20\x00\x80\x52'
pattern2_new == <<0, 0, 128, 82>>           \* b'\x00\x00\x80\x52'

\* data[:pos] + new + data[pos:], the old bytes kept: mutant of Splice
SpliceInsert(data, pos, new, oldlen) ==
    Slice(data, 0, pos) \o new \o SliceFrom(data, pos)

\* data[:pos] + new + data[pos+oldlen:]
Splice(data, pos, new, oldlen) ==
    Slice(data, 0, pos) \o new \o SliceFrom(data, pos + oldlen)

\* step one (lines 311-319): the blob after the pattern-1 search
PatchStep1(data) ==
    LET last_pos == RFind(data, pattern1_old)
    IN  IF last_pos # -1
        THEN [new_data |-> Splice(data, last_pos, pattern1_new, Len(pattern1_old)),
              modified |-> TRUE,
              last_pos |-> last_pos,
              search_start |-> last_pos + Len(pattern1_new)]
        ELSE [new_data |-> data,
              modified |-> FALSE,
              last_pos |-> -1,
              search_start |-> 0]

\* step two (lines 321-330): the blob after the pattern-2 search
PatchStep2(s1) ==
    IF s1.search_start < Len(s1.new_data)
    THEN LET pos2 == Find(s1.new_data, pattern2_old, s1.search_start)
         IN  IF pos2 # -1
             THEN [new_data |-> Splice(s1.new_data, pos2, pattern2_new, Len(pattern2_old)),
                   modified |-> TRUE,
                   last_pos |-> s1.last_pos,
                   search_start |-> s1.search_start,
                   pos2 |-> pos2]
             ELSE [new_data |-> s1.new_data, modified |-> s1.modified,
                   last_pos |-> s1.last_pos, search_start |-> s1.search_start,
                   pos2 |-> -1]
    ELSE [new_data |-> s1.new_data, modified |-> s1.modified,
          last_pos |-> s1.last_pos, search_start |-> s1.search_start,
          pos2 |-> -1]

\* the write-back decision taken unconditionally: mutant of WriteBack
WriteBackAlways(modified) == TRUE

\* lines 332-337: the file is rewritten only under "if modified"
WriteBack(modified) == modified

\* the blobs the patcher is run on: concatenations of at most MaxChunks chunks
MaxChunks == 4
Chunks == { pattern1_old, pattern2_old, pattern1_new, <<0>>, <<7>> }

Blobs == UNION { { Concat(cs) : cs \in [1..n -> Chunks] } : n \in 0..MaxChunks }

PatchInit ==
    /\ module_file \in { File(b) : b \in Blobs } \cup {NoFile}
    /\ patch_in = <<>>
    /\ patch_pc = "ready"
    /\ patch_loc = [last_pos |-> -1, search_start |-> 0, pos2 |-> -1, modified |-> FALSE]
    /\ patch_io = [reads |-> 0, writes |-> 0, diag |-> "none"]

\* an existence test that always succeeds: mutant of IsFile
IsFileAlways(f) == TRUE

\* os.path.isfile(module_path) (line 296)
IsFile(f) == f.exists

\* os.path.isfile(module_path) is false: warn and return (lines 296-298)
PatchMissing ==
    /\ patch_pc = "ready"
    /\ ~IsFile(module_file)
    /\ patch_pc' = "done"
    /\ patch_io' = [patch_io EXCEPT !.diag = "not found"]
    /\ UNCHANGED <<module_file, patch_in, patch_loc, cpio, image_vars>>

\* the whole of patch_adaptive_ts on an existing file (lines 300-337)
PatchAdaptiveTs ==
    /\ patch_pc = "ready"
    /\ IsFile(module_file)
    /\ LET data == module_file.data
           s2 == PatchStep2(PatchStep1(data))
           w == WriteBack(s2.modified)
       IN  /\ patch_in' = data
           /\ patch_loc' = [last_pos |-> s2.last_pos, search_start |-> s2.search_start,
                            pos2 |-> s2.pos2, modified |-> s2.modified]
           /\ module_file' = IF w THEN File(s2.new_data) ELSE module_file
           /\ patch_io' = [reads |-> patch_io.reads + 1,
                           writes |-> patch_io.writes + (IF w THEN 1 ELSE 0),
                           diag |-> IF w THEN "patched" ELSE "no modifications"]
    /\ patch_pc' = "done"
    /\ UNCHANGED <<cpio, image_vars>>

vars == <<image_src, image, boot_header, entries, info, img_pc,
          cpio, module_file, patch_in, patch_pc, patch_loc, patch_io>>

(***************************************************************************)
(* parse_vendor_boot (lines 154-161) followed by extract_all (423-454),    *)
(* as main runs them on an image file (lines 1228-1230).                   *)
(***************************************************************************)
NoEntries == [exc |-> "none", entries |-> <<>>]

ImageIdle ==
    /\ image_src = ImageSource(<<>>, <<>>, 0, 0)
    /\ image = <<>>
    /\ boot_header = HeaderError("none")
    /\ entries = NoEntries
    /\ info = DeviceInfoInit(WorkDir, WorkFs)
    /\ img_pc = "idle"

ImageInit ==
    /\ image_src \in ImageSources
    /\ image = ImageOf(image_src)
    /\ boot_header = HeaderError("none")
    /\ entries = NoEntries
    /\ info = DeviceInfoInit(WorkDir, WorkFs)
    /\ img_pc = "read"

\* line 158: header = VendorBootHeader(data)
ParseHeader ==
    /\ img_pc = "read"
    /\ boot_header' = VendorBootHeader(image)
    /\ img_pc' = IF boot_header'.exc = "none" THEN "header" ELSE "failed"
    /\ UNCHANGED <<image_src, image, entries, info, cpio, patch_vars>>

\* line 159: entries = header.get_ramdisk_entries()
GetRamdiskEntries ==
    /\ img_pc = "header"
    /\ entries' = get_ramdisk_entries(boot_header, image)
    /\ img_pc' = IF entries'.exc = "none" THEN "entries" ELSE "failed"
    /\ UNCHANGED <<image_src, image, boot_header, info, cpio, patch_vars>>

\* lines 430-437
ExtractDtbStep ==
    /\ img_pc = "entries"
    /\ info' = ExtractDtb(info, boot_header, image)
    /\ img_pc' = IF info'.exc = "none" THEN "segments" ELSE "failed"
    /\ UNCHANGED <<image_src, image, boot_header, entries, cpio, patch_vars>>

\* lines 439-448, one iteration
ExtractSegmentStep ==
    /\ img_pc = "segments"
    /\ info.i < Len(entries.entries)
    /\ info' = ExtractSegment(info, entries.entries[info.i + 1], image)
    /\ img_pc' = IF info'.exc = "none" THEN "segments" ELSE "failed"
    /\ UNCHANGED <<image_src, image, boot_header, entries, cpio, patch_vars>>

\* lines 449-453, after the loop
SelectRecoveryStep ==
    /\ img_pc = "segments"
    /\ info.i >= Len(entries.entries)
    /\ info' = SelectRecovery(info, entries.entries)
    /\ img_pc' = IF info'.exc = "none" THEN "extracted" ELSE "failed"
    /\ UNCHANGED <<image_src, image, boot_header, entries, cpio, patch_vars>>

ImageNext ==
    \/ ParseHeader
    \/ GetRamdiskEntries
    \/ ExtractDtbStep
    \/ ExtractSegmentStep
    \/ SelectRecoveryStep


(***************************************************************************)
(* The extractor as a process: the call, then one step per record.         *)
(***************************************************************************)
CpioIdle == CpioStart(<<>>, GzipFails, DestDir, WorkFs)

CpioInit ==
    cpio \in { CpioStart(a, GzipFails, DestDir, WorkFs) : a \in Archives \cup CutArchives }
             \cup { CpioStart(GzipFile, z, DestDir, WorkFs) : z \in GzipContents }

ExtractCpioOpen ==
    /\ cpio.status = "called"
    /\ cpio' = CpioOpen(cpio)
    /\ UNCHANGED <<image_vars, patch_vars>>

ExtractCpioRecord ==
    /\ cpio.status = "reading"
    /\ cpio' = CpioRecord(cpio)
    /\ UNCHANGED <<image_vars, patch_vars>>

CpioNext == ExtractCpioOpen \/ ExtractCpioRecord

PatchIdle ==
    /\ module_file = NoFile
    /\ patch_in = <<>>
    /\ patch_pc = "idle"
    /\ patch_loc = [last_pos |-> -1, search_start |-> 0, pos2 |-> -1, modified |-> FALSE]
    /\ patch_io = [reads |-> 0, writes |-> 0, diag |-> "none"]

InitCpio == CpioInit /\ ImageIdle /\ PatchIdle

SpecCpio == InitCpio /\ [][CpioNext]_vars

InitImage == ImageInit /\ cpio = CpioIdle /\ PatchIdle

SpecImage == InitImage /\ [][ImageNext]_vars

PatchNext == PatchMissing \/ PatchAdaptiveTs

InitPatch == PatchInit /\ ImageIdle /\ cpio = CpioIdle

SpecPatch == InitPatch /\ [][PatchNext]_vars

(***************************************************************************)
(* Properties of the binary patcher.                                       *)
(***************************************************************************)
PatchRan == patch_pc = "done" /\ patch_io.reads = 1

\* offsets of the old byte patterns in the blob that was read
Occ1 == Occurrences(patch_in, pattern1_old)
Occ2 == Occurrences(patch_in, pattern2_old)

\* the cursor of step two as the documentation states it
Cursor == IF Occ1 = {} THEN 0 ELSE SetMax(Occ1) + Len(pattern1_old)
Occ2AfterCursor == { p \in Occ2 : p >= Cursor }

BytesAt(data, p, pat) == Slice(data, p, p + Len(pat)) = pat

\* C5: when the blob holds k >= 1 occurrences of pattern-1's old bytes, after
\* the run the rightmost one holds pattern-1's new bytes and every earlier
\* occurrence still holds the old bytes.
C5_RightmostPattern1 ==
    (PatchRan /\ Occ1 # {}) =>
        /\ BytesAt(module_file.data, SetMax(Occ1), pattern1_new)
        /\ \A p \in Occ1 \ {SetMax(Occ1)} : BytesAt(module_file.data, p, pattern1_old)

\* a run on a blob with at least two occurrences of pattern-1
C5_Witness ==
    /\ PatchRan
    /\ Cardinality(Occ1) >= 2
    /\ patch_io.writes = 1

\* C6: pattern-2 is replaced exactly at its first occurrence at or after the
\* cursor (end of the pattern-1 replacement, or 0 when pattern-1 is absent);
\* occurrences that start before the cursor, and later ones, keep the old
\* bytes; this does not depend on pattern-1 having matched.
C6_Pattern2AtCursor ==
    PatchRan =>
        /\ Occ2AfterCursor # {} =>
              BytesAt(module_file.data, SetMin(Occ2AfterCursor), pattern2_new)
        /\ \A p \in Occ2 :
              (Occ2AfterCursor = {} \/ p # SetMin(Occ2AfterCursor)) =>
                  BytesAt(module_file.data, p, pattern2_old)

\* a run where pattern-2 occurs both before the pattern-1 match and after it
C6_Witness ==
    /\ PatchRan
    /\ Occ1 # {}
    /\ \E p \in Occ2 : p < SetMax(Occ1)
    /\ Occ2AfterCursor # {}

\* C7: the file is written only when a replacement occurred; when neither
\* pattern is found no write is performed and the content is unchanged.
C7_WriteOnlyIfModified ==
    PatchRan =>
        /\ patch_io.writes > 0 => (Occ1 # {} \/ Occ2AfterCursor # {})
        /\ (Occ1 = {} /\ Occ2 = {}) =>
              (patch_io.writes = 0 /\ module_file = File(patch_in))

\* a run on a non-empty blob that contains neither pattern
C7_Witness ==
    /\ PatchRan
    /\ Len(patch_in) > 0
    /\ Occ1 = {} /\ Occ2 = {}
    /\ patch_io.writes = 0

\* C19: when no file exists at the patcher's input path, the call reads
\* nothing, writes nothing, creates no file, reports the absence and
\* returns normally.
C19_MissingInputNoop ==
    [][(patch_pc = "ready" /\ ~module_file.exists)
       => /\ patch_pc' = "done"
          /\ ~module_file'.exists
          /\ patch_in' = <<>>
          /\ patch_io'.reads = 0
          /\ patch_io'.writes = 0
          /\ patch_io'.diag = "not found"]_vars

\* the call has returned on a path without a file
C19_Witness ==
    /\ patch_pc = "done"
    /\ ~module_file.exists
    /\ patch_io.diag = "not found"

\* the 0-based positions at which the file differs from the blob that was read
Changed == { p \in 0..(Len(patch_in) - 1) : module_file.data[p + 1] # patch_in[p + 1] }

\* C24: the patcher's output is as long as its input and differs from it in
\* at most two bytes: byte 4 of the replaced occurrence of pattern-1 (0x40
\* becomes 0x00) and byte 0 of the replaced occurrence of pattern-2 (0x20
\* becomes 0x00); every other byte is unchanged.
C24_PatchFrame ==
    PatchRan
    => /\ Len(module_file.data) = Len(patch_in)
       /\ Cardinality(Changed) <= 2
       /\ \A p \in Changed :
             \/ /\ Occ1 # {}
                /\ p = SetMax(Occ1) + 4
                /\ patch_in[p + 1] = 64
                /\ module_file.data[p + 1] = 0
             \/ /\ Occ2AfterCursor # {}
                /\ p = SetMin(Occ2AfterCursor)
                /\ patch_in[p + 1] = 32
                /\ module_file.data[p + 1] = 0

\* a run that replaced both patterns, with bytes before, between and behind
C24_Witness ==
    /\ PatchRan
    /\ Cardinality(Changed) = 2
    /\ Len(patch_in) > Len(pattern1_old) + Len(pattern2_old)

(***************************************************************************)
(* Properties of the archive extractor.                                    *)
(***************************************************************************)
IsPrefix(p, q) == Len(p) <= Len(q) /\ SubSeq(q, 1, Len(p)) = p

\* the path the kernel resolves dest/filename to
TargetPath(dest, filename) == ResolveFrom(dest, SplitPath(filename))

LastRec == cpio.recs[Len(cpio.recs)]

\* C1: every directory, file or symlink created or written for an archive
\* entry lies inside the destination root, whatever the entry names are.
C1_Containment ==
    \A i \in 1..Len(cpio.log) :
        cpio.log[i].rec > 0 => IsPrefix(cpio.dest, cpio.log[i].path)

\* C2: once an entry with symlink mode bits has been handled, the destination
\* path is a symlink whose target is the entry's content.
C2_SymlinkCreated ==
    (/\ cpio.status = "reading"
     /\ cpio.recs # <<>>
     /\ S_ISLNK(LastRec.mode))
    => \E n \in cpio.fs :
          /\ n.path = TargetPath(cpio.dest, LastRec.filename)
          /\ n.kind = "symlink"
          /\ n.data = Slice(cpio.stream, LastRec.content_at,
                            LastRec.content_at + LastRec.filesize)

\* C3: a record whose 6-byte tag is not a recognised magic stops the loop and
\* the call returns normally, whatever the bytes of the tag are.
C3_BadMagicReturns ==
    (/\ cpio.recs # <<>>
     /\ LastRec.magic \notin CpioMagics)
    => (cpio.status = "badmagic" /\ cpio.exc = "none")

\* record i of the call was decoded as far as its name, which is the sentinel
IsSentinel(i) == cpio.recs[i].namesize # -1 /\ cpio.recs[i].filename = Trailer

\* C15: a record whose decoded name is 'TRAILER!!!' ends the loop and the
\* call returns normally; nothing is created for it, and nothing that
\* follows it in the stream is decoded or materialised.
C15_TrailerStops ==
    \A i \in 1..Len(cpio.recs) :
        IsSentinel(i)
        => /\ i = Len(cpio.recs)
           /\ cpio.status = "trailer"
           /\ cpio.exc = "none"
           /\ cpio.pos = cpio.recs[i].content_at
           /\ \A j \in 1..Len(cpio.log) : cpio.log[j].rec # i
           /\ ~Exists(cpio.fs, TargetPath(cpio.dest, Trailer))

\* the sentinel met after a materialised entry, with more records behind it
C15_Witness ==
    /\ cpio.status = "trailer"
    /\ Len(cpio.recs) >= 2
    /\ IsSentinel(Len(cpio.recs))
    /\ \E j \in 1..Len(cpio.log) : cpio.log[j].rec = 1
    /\ Len(cpio.stream) >= cpio.pos + CpioHeaderSize

\* the mode bits of a regular file (0o100000)
IsRegular(mode) == S_IFMT(mode) = 8 * 4096

\* where the content of a record starts: behind the 110-byte header and the
\* name padded to a multiple of 4
ContentStart(r) == r.at + 110 + r.namesize + ((4 - (r.namesize % 4)) % 4)

\* the stream holds the whole content of record r
ContentPresent(r) == ContentStart(r) + r.filesize <= Len(cpio.stream)

\* C16: once a regular-file entry has been handled, the file at its
\* destination path holds exactly the filesize bytes that follow the padded
\* name in the stream (none when filesize is 0), and the directories above
\* it exist.  (An entry is a record whose name and content the stream holds.)
C16_RegularFileContent ==
    (/\ cpio.status = "reading"
     /\ cpio.recs # <<>>
     /\ IsRegular(LastRec.mode)
     /\ ContentPresent(LastRec))
    => LET target == TargetPath(cpio.dest, LastRec.filename)
       IN  /\ \E n \in cpio.fs :
                 /\ n.path = target
                 /\ n.kind = "file"
                 /\ Len(n.data) = LastRec.filesize
                 /\ n.data = SubSeq(cpio.stream, ContentStart(LastRec) + 1,
                                    ContentStart(LastRec) + LastRec.filesize)
           /\ \A k \in 1..(Len(target) - 1) : HasNode(cpio.fs, SubSeq(target, 1, k), "dir")

\* a regular file with content whose parent directory this entry created
C16_Witness ==
    /\ cpio.status = "reading"
    /\ cpio.recs # <<>>
    /\ IsRegular(LastRec.mode)
    /\ LastRec.filesize > 0
    /\ \E j \in 1..Len(cpio.log) :
          cpio.log[j].rec = Len(cpio.recs) /\ cpio.log[j].op = "mkdir"

\* the input file begins with the gzip magic and the pre-pass has run
GzipInput == cpio.status # "called" /\ Slice(cpio.file, 0, 2) = <<31, 139>>

\* C17: an input that begins with 0x1f 0x8b is inflated as a whole before
\* any record is decoded, the records being read from the inflated bytes;
\* when inflating fails the call ends there: no record is decoded, nothing
\* is materialised, and the failure is reported instead of raised.
C17_GzipPrepass ==
    GzipInput
    => IF cpio.inflated = GzipFails
       THEN /\ cpio.status = "gzipfail"
            /\ cpio.exc = "none"
            /\ cpio.recs = <<>>
            /\ cpio.pos = 0
            /\ \A j \in 1..Len(cpio.log) : cpio.log[j].rec = 0
            /\ \A n \in cpio.fs : n.kind = "dir" /\ IsPrefix(n.path, cpio.dest)
       ELSE /\ cpio.stream = cpio.inflated
            /\ \A i \in 1..Len(cpio.recs) :
                  cpio.recs[i].magic
                      = Slice(cpio.inflated, cpio.recs[i].at, cpio.recs[i].at + 6)

\* a gzip file that cannot be inflated
C17_Witness ==
    /\ GzipInput
    /\ cpio.inflated = GzipFails
    /\ cpio.status = "gzipfail"
    /\ HasNode(cpio.fs, cpio.dest, "dir")

\* the loop has been left by a break and the call has returned normally,
\* logging the extraction as done (line 291)
LoopLeft == cpio.status \in {"eof", "trailer", "badmagic"}

\* C21: the loop of a call on a non-empty stream ends only at a record named
\* by the sentinel or at a record with an unrecognised magic tag; a stream
\* that ends elsewhere, also with fewer than 110 bytes left for the next
\* header, does not make the call return as if the archive were complete.
C21_StopsOnlyOnSentinelOrMagic ==
    (LoopLeft /\ Len(cpio.stream) > 0)
    => /\ cpio.recs # <<>>
       /\ IsSentinel(Len(cpio.recs)) \/ LastRec.magic \notin CpioMagics

\* where the stream stands behind record r: behind its content and the
\* padding of the content
RecordEnd(r) == ContentStart(r) + r.filesize + ((4 - (r.filesize % 4)) % 4)

\* record i was decoded as far as its sizes
Decoded(i) == cpio.recs[i].namesize # -1

\* C22: the name (namesize bytes) and the content or link target (filesize
\* bytes) of a record are each followed by a skip of (4 - size mod 4) mod 4
\* bytes, which leaves the stream a multiple of 4 behind the start of that
\* payload, and the next 110-byte header is read from exactly there.
C22_PaddingSkipped ==
    /\ \A i \in 1..Len(cpio.recs) :
          (Decoded(i) /\ ContentStart(cpio.recs[i]) <= Len(cpio.stream))
          => /\ cpio.recs[i].content_at = ContentStart(cpio.recs[i])
             /\ (cpio.recs[i].content_at - (cpio.recs[i].at + 110)) % 4 = 0
    /\ \A i \in 1..(Len(cpio.recs) - 1) :
          /\ Decoded(i)
          /\ cpio.recs[i + 1].at = RecordEnd(cpio.recs[i])
          /\ (cpio.recs[i + 1].at - cpio.recs[i].content_at) % 4 = 0
    /\ (cpio.status = "reading" /\ cpio.recs # <<>>
           /\ RecordEnd(LastRec) <= Len(cpio.stream))
          => cpio.pos = RecordEnd(LastRec)

\* the header of a second record read behind the 2-byte content 'hi' of the
\* first and its 2 bytes of padding
C22_Witness ==
    /\ Len(cpio.recs) >= 2
    /\ cpio.recs[1].filesize = 2
    /\ cpio.recs[1].namesize % 4 # 0
    /\ Decoded(2)
    /\ cpio.recs[2].at = cpio.recs[1].content_at + 2 + 2

(***************************************************************************)
(* Properties of the image parser and of the segment selection.            *)
(***************************************************************************)
HeaderParsed == img_pc \notin {"idle", "read"}
MagicIntact == Slice(image, 0, 8) = BOOT_MAGIC_VENDOR_BOOT

\* the entry the documentation selects: the first of type recovery, else the first
FirstRecovery(es) ==
    LET rec == { i \in 1..Len(es) : es[i].type = VENDOR_RAMDISK_TYPE_RECOVERY }
    IN  IF rec = {} THEN es[1] ELSE es[SetMin(rec)]

\* C4: the selected recovery segment is the first entry of type recovery in
\* table order, or the first entry of the table when none has that type.
C4_FirstRecoverySelected ==
    (img_pc = "extracted" /\ entries.entries # <<>>)
    => info.recovery_ramdisk_dir = SegmentDir(info.work_dir, FirstRecovery(entries.entries))

\* C8: a buffer whose first 8 bytes differ from 'VNDRBOOT' fails with the
\* bad-magic error (ValueError), never with a truncation error, at any length.
C8_BadMagicFirst ==
    (HeaderParsed /\ ~MagicIntact)
    => (img_pc = "failed" /\ boot_header.exc = "ValueError")

\* a damaged magic in a buffer that is also shorter than the fixed header
C8_Witness ==
    /\ HeaderParsed
    /\ image_src.damage # 0
    /\ Len(image) >= 8 /\ Len(image) < FixedHeaderSize
    /\ boot_header.exc = "ValueError"

\* C9: a buffer with the right magic that is shorter than the fixed header
\* fails to parse, wherever it ends, and yields no header object.
C9_TruncatedFails ==
    (HeaderParsed /\ MagicIntact /\ Len(image) < FixedHeaderSize)
    => (img_pc = "failed" /\ boot_header.exc # "none" /\ boot_header.table_offset = -1)

\* a buffer that ends inside the cmdline region
C9_Witness ==
    /\ HeaderParsed
    /\ MagicIntact
    /\ Len(image) > 8 + 5 * 4 /\ Len(image) < 8 + 5 * 4 + 2048
    /\ img_pc = "failed"

\* C10: table_offset of a parsed header is the sum of the fixed field widths
\* whatever the field values, and the ramdisk table is decoded from there:
\* the entries are those laid down at that offset.
C10_TableOffset ==
    (HeaderParsed /\ boot_header.exc = "none")
    => /\ boot_header.table_offset = 8 + 5 * 4 + 2048 + 4 + 64 + 4 + 4 + 8 + 4 + 4 + 4
       /\ img_pc \in {"entries", "segments", "extracted"} =>
             /\ Len(entries.entries) = Len(image_src.segs)
             /\ \A i \in 1..Len(entries.entries) :
                   LET laid == TableEntryOf(image_src.segs, i)
                       got == entries.entries[i]
                   IN  /\ got.size = laid.size
                       /\ got.offset = laid.offset
                       /\ got.type = laid.type
                       /\ got.name = laid.name

\* a parsed image whose table holds at least two entries
C10_Witness ==
    /\ img_pc = "entries"
    /\ boot_header.exc = "none"
    /\ Len(entries.entries) >= 2
    /\ entries.entries[2].name # <<>>

(***************************************************************************)
(* Properties of the header fields and of the ramdisk table.               *)
(***************************************************************************)
\* text that NUL padding and UTF-8 leave as it is: ASCII, no NUL at its end
IsPlainText(t) ==
    /\ \A i \in 1..Len(t) : t[i] < 128
    /\ t = <<>> \/ t[Len(t)] # 0

\* the field values the image was encoded from
Encoded == HeaderFields(image_src.variant, image_src.segs)

\* C11: a header encoded field by field (little-endian integers, 32 bits
\* wide except the 64-bit dtb_load_addr, NUL-padded text) parses to exactly
\* the values it was encoded from, for every field.
C11_HeaderRoundTrip ==
    (/\ HeaderParsed
     /\ boot_header.exc = "none"
     /\ IsPlainText(image_src.variant.cmdline)
     /\ IsPlainText(image_src.variant.product_name))
    => /\ boot_header.header_version = Encoded.header_version
       /\ boot_header.page_size = Encoded.page_size
       /\ boot_header.kernel_load_addr = Encoded.kernel_load_addr
       /\ boot_header.ramdisk_load_addr = Encoded.ramdisk_load_addr
       /\ boot_header.vendor_ramdisk_total_size = Encoded.vendor_ramdisk_total_size
       /\ boot_header.cmdline = Encoded.cmdline
       /\ boot_header.tags_load_addr = Encoded.tags_load_addr
       /\ boot_header.product_name = Encoded.product_name
       /\ boot_header.header_size = Encoded.header_size
       /\ boot_header.dtb_size = Encoded.dtb_size
       /\ boot_header.dtb_load_addr = Encoded.dtb_load_addr
       /\ boot_header.vendor_ramdisk_table_size = Encoded.vendor_ramdisk_table_size
       /\ boot_header.vendor_ramdisk_table_num_entries
              = Encoded.vendor_ramdisk_table_num_entries
       /\ boot_header.vendor_bootconfig_size = Encoded.vendor_bootconfig_size

\* a parsed header with integers that use all four bytes, a product name
\* that fills its region and a non-empty table
C11_Witness ==
    /\ HeaderParsed
    /\ boot_header.exc = "none"
    /\ boot_header.page_size = 2147483647
    /\ boot_header.dtb_load_addr = 2130706433
    /\ Len(boot_header.product_name) = 64
    /\ boot_header.vendor_ramdisk_table_num_entries >= 1

\* get_ramdisk_entries has been called on a parsed header
TableRead == HeaderParsed /\ boot_header.exc = "none" /\ img_pc # "header"

\* C12: the decoded table has exactly vendor_ramdisk_table_num_entries
\* entries, and the i-th one (from 0) is decoded from the 76 bytes at
\* table_offset + i*76, so the entries come in the order of the table.
C12_TableOrder ==
    (TableRead /\ entries.exc = "none")
    => /\ Len(entries.entries) = boot_header.vendor_ramdisk_table_num_entries
       /\ \A i \in 1..Len(entries.entries) :
             /\ entries.entries[i] =
                    VendorRamdiskEntry(Slice(image,
                                             boot_header.table_offset + (i - 1) * 76,
                                             boot_header.table_offset + i * 76))
             /\ entries.entries[i].board_id = Hex(TableEntryOf(image_src.segs, i).board_id)
             /\ entries.entries[i].name = image_src.segs[i].name

\* three entries decoded from a buffer that ends with the table
C12_Witness ==
    /\ img_pc = "entries"
    /\ boot_header.vendor_ramdisk_table_num_entries = 3
    /\ Len(image) = boot_header.table_offset + 3 * 76
    /\ Len(entries.entries) = 3
    /\ entries.entries[1].name # entries.entries[2].name
    /\ entries.entries[2].name # entries.entries[3].name

\* C13: decoding the table fails with the truncated-table error (ValueError),
\* returning no entries, exactly when the buffer holds fewer than
\* num_entries * 76 bytes from table_offset.
C13_TruncatedTable ==
    TableRead
    => LET need == boot_header.vendor_ramdisk_table_num_entries * 76
           have == Len(image) - boot_header.table_offset
       IN  IF have < need
           THEN entries.exc = "ValueError" /\ entries.entries = <<>> /\ img_pc = "failed"
           ELSE entries.exc = "none"

\* a table of three entries in a buffer that is one byte short of it
C13_Witness ==
    /\ TableRead
    /\ boot_header.vendor_ramdisk_table_num_entries = 3
    /\ Len(image) = boot_header.table_offset + 3 * 76 - 1
    /\ entries.exc = "ValueError"

\* the DTB locator has been called and its result kept (lines 431-437)
DtbLocated == TableRead /\ info.dtb_path # <<>>

\* the primary value of the locator, from the fields the image was encoded from
Primary ==
    Encoded.header_size + Encoded.vendor_bootconfig_size + Encoded.vendor_ramdisk_total_size

\* C14: the DTB locator returns header_size + vendor_bootconfig_size +
\* vendor_ramdisk_total_size when that value plus dtb_size is at most the
\* length of the buffer, and the length of the buffer minus dtb_size otherwise.
C14_DtbLocator ==
    DtbLocated
    => /\ (Primary + Encoded.dtb_size <= Len(image)) => info.dtb_offset = Primary
       /\ (Primary + Encoded.dtb_size > Len(image))
             => info.dtb_offset = Len(image) - Encoded.dtb_size

\* a header that announces more ramdisk bytes than the buffer has
C14_Witness ==
    /\ DtbLocated
    /\ Encoded.vendor_ramdisk_table_num_entries >= 1
    /\ Primary + Encoded.dtb_size > Len(image)
    /\ info.dtb_offset = Len(image) - 8
    /\ info.dtb_offset < Primary

\* 'unknown(7)'
Str_unknown_7 == <<117, 110, 107, 110, 111, 119, 110, 40, 55, 41>>

\* C18: the type codes 0, 1, 2, 3 of a table entry read as none, platform,
\* recovery, dlkm; any other code c reads as unknown(c); and a table that is
\* whole is decoded whatever the type codes of its entries are.
C18_TypeCodes ==
    TableRead
    => /\ Len(image) >= boot_header.table_offset
                           + boot_header.vendor_ramdisk_table_num_entries * 76
             => entries.exc = "none"
       /\ \A i \in 1..Len(entries.entries) :
             LET c == entries.entries[i].type
                 t == entries.entries[i].type_str
             IN  /\ c = image_src.segs[i].type
                 /\ c = 0 => t = <<110, 111, 110, 101>>
                 /\ c = 1 => t = <<112, 108, 97, 116, 102, 111, 114, 109>>
                 /\ c = 2 => t = <<114, 101, 99, 111, 118, 101, 114, 121>>
                 /\ c = 3 => t = <<100, 108, 107, 109>>
                 /\ c = 7 => t = Str_unknown_7
                 /\ c \notin 0..3 => t = Str_unknown \o <<40>> \o Decimal(c) \o <<41>>

\* a decoded table with the code 0 and a code far outside the known ones
C18_Witness ==
    /\ TableRead
    /\ entries.exc = "none"
    /\ \E i \in 1..Len(entries.entries) : entries.entries[i].type = 0
    /\ \E i \in 1..Len(entries.entries) :
          /\ entries.entries[i].type = 2147483647
          /\ Len(entries.entries[i].type_str) = 19

\* the byte regions of the two text fields, with trailing NULs removed
CmdlineRegion == RStripNul(Slice(image, 8 + 5 * 4, 8 + 5 * 4 + 2048))
ProductNameRegion ==
    RStripNul(Slice(image, 8 + 5 * 4 + 2048 + 4, 8 + 5 * 4 + 2048 + 4 + 64))

\* raw with every byte that is not valid UTF-8 replaced by the marker
WithMarkers(raw) == Utf8Replace(raw)

\* raw without the bytes that are not valid UTF-8
RECURSIVE WithoutInvalid(_)
WithoutInvalid(raw) ==
    IF raw = <<>> THEN <<>>
    ELSE WithoutInvalid(Front(raw))
         \o (IF raw[Len(raw)] < 128 THEN <<raw[Len(raw)]>> ELSE <<>>)

\* C20 as stated: cmdline and product_name are the field's bytes without
\* the trailing NULs, decoded with a replacement marker in the place of each
\* invalid byte sequence; an all-NUL field gives the empty string.
C20_InvalidReplaced ==
    (HeaderParsed /\ boot_header.exc = "none")
    => /\ boot_header.cmdline = WithMarkers(CmdlineRegion)
       /\ boot_header.product_name = WithMarkers(ProductNameRegion)

\* C20 as amended: cmdline and product_name are the field's bytes without
\* the trailing NULs, decoded with each invalid byte sequence dropped (no
\* marker is put in its place and nothing is raised); an all-NUL field
\* gives the empty string.
C20_InvalidDropped ==
    (HeaderParsed /\ boot_header.exc = "none")
    => /\ boot_header.cmdline = WithoutInvalid(CmdlineRegion)
       /\ boot_header.product_name = WithoutInvalid(ProductNameRegion)
       /\ \A i \in 1..Len(boot_header.cmdline) : boot_header.cmdline[i] < 128
       /\ \A i \in 1..Len(boot_header.product_name) : boot_header.product_name[i] < 128
       /\ CmdlineRegion = <<>> => boot_header.cmdline = <<>>
       /\ ProductNameRegion = <<>> => boot_header.product_name = <<>>

\* a parsed header whose cmdline region is 'a', 0xff, NUL, 'b' and NULs
C20_Witness ==
    /\ HeaderParsed
    /\ boot_header.exc = "none"
    /\ CmdlineRegion = <<97, 255, 0, 98>>
    /\ boot_header.cmdline = <<97, 0, 98>>
    /\ boot_header.product_name = <<80>>

\* where the concatenated ramdisks begin: behind the header (with its table)
\* and the boot-config region, as get_dtb_offset has it (line 131)
RamdiskRegionStart == boot_header.header_size + boot_header.vendor_bootconfig_size

\* C23: the bytes taken from the image as the archive of a table entry are
\* the size bytes at entry.offset counted from the start of the concatenated
\* ramdisk region, not from the start of the image.
C23_SegmentFromRamdiskRegion ==
    \A k \in 1..Len(info.segments) :
        LET entry == entries.entries[k]
        IN  info.segments[k].cpio_bytes
                = Slice(image, RamdiskRegionStart + entry.offset,
                        RamdiskRegionStart + entry.offset + entry.size)

\* the bytes written to dtb.img
DtbWritten == (CHOOSE n \in info.fs : n.path = info.dtb_path).data

\* C25: the byte range of the DTB that the locator gives lies inside the
\* buffer, 0 <= offset and offset + dtb_size <= length, so that the DTB
\* extracted has exactly dtb_size bytes, also for a header whose dtb_size
\* exceeds the length of the buffer.
C25_DtbRangeInside ==
    DtbLocated
    => /\ info.dtb_offset >= 0
       /\ info.dtb_offset + boot_header.dtb_size <= Len(image)
       /\ Len(DtbWritten) = boot_header.dtb_size

====
